---- MODULE Spec2Model ----
(***************************************************************************)
(* Verification model of stevekinney/react-performance.                    *)
(*                                                                         *)
(* The repository realises the "speculative view" pattern in three places: *)
(*   - effect-essentials, Version4Fixed: a fetch per selected userId whose *)
(*     result is fenced by a per-effect `cancelled` closure flag;          *)
(*   - anti-social-network: useOptimistic over the `posts` state;          *)
(*   - the deferred-value examples.                                        *)
(* The engine interface the specification distils from them (Epoch         *)
(* Tracker, Mutation Overlay) has no implementation in the repository and  *)
(* is modelled from its contract.                                          *)
(* Each part has its own specification over its own variables; the         *)
(* variables of the other parts stay unchanged.                            *)
(***************************************************************************)
EXTENDS Integers, Sequences, FiniteSets, TLC

\* ------------------------------------------------------------------------
\* Bounds
\* ------------------------------------------------------------------------

\* Greatest number of effect runs (mount + re-runs after a userId change).
MaxEffects == 3

\* Greatest number of create/delete handler calls in the post application.
MaxOps == 3

\* Greatest number of mutations proposed to the overlay, over all channels.
MaxProposals == 3

\* Greatest epoch allocated on a channel of the engine.
MaxEpoch == 1

\* Greatest number of changes of the search input, and of the shapes slider.
MaxChanges == 3

\* Greatest number of engine operations when both channels are exercised.
MaxCalls == 5

\* ------------------------------------------------------------------------
\* effect-essentials: Version4Fixed
\* ------------------------------------------------------------------------

VARIABLES
  userId,       \* useState(1): the selected user
  user,         \* useState<User | null>(null): the displayed user
  loading,      \* useState(false)
  messages,     \* useState<ConsoleMessage[]>([]): <<[type, userId]>>
  effects,      \* one closure per run of the effect: [userId, cancelled, pc]
  mounted,      \* <Version4Fixed /> is rendered (activeVersion === 'fixed')
  publishedBy   \* history: index in effects of the run whose fetch last called setUser (0: none)

effectVars == <<userId, user, loading, messages, effects, mounted, publishedBy>>

\* anti-social-network: Application (useOptimistic)
VARIABLES
  posts,           \* useState<Post[]>([]): <<[id, isPending]>>
  isLoading,       \* useState(true)
  error,           \* useState<string | null>(null); "" is null
  optimisticQueue, \* the optimistic updates React holds for the useOptimistic hook
  listPc,          \* the mount effect's fetchPosts: "awaiting" | "done" | "off"
  ops              \* the calls of handleCreatePost / handleDeletePost: [kind, post, pc]

postVars == <<posts, isLoading, error, optimisticQueue, listPc, ops>>

\* Speculative View Engine: Epoch Tracker and Mutation Overlay
VARIABLES
  epoch,    \* channel -> greatest epoch allocated
  base,     \* channel -> authoritative value
  queue,    \* channel -> <<[id, epoch, apply]>>, the unconfirmed mutations
  issued,   \* handle id -> channel: the handles propose has returned
  last      \* history: the last overlay operation and whether it found its handle

engineVars == <<epoch, base, queue, issued, last>>

\* pokamoka: Application (useTransition), and its debounced variant
VARIABLES
  inputQuery,      \* useState(''): the value of the input (inputValue in the debounced variant)
  searchQuery,     \* useState(''): the query filterPokemon is given
  isPending,       \* useTransition(): a transition of this hook has not committed
  transitionQueue, \* the setSearchQuery updates waiting on the transition lane
  timeouts,        \* the setTimeout callbacks created: <<[value, state, burst]>>
  debounceRef,     \* debounceRef.current: index in timeouts (0: undefined)
  wip,             \* the transition render in progress: <<query>>, or <<>>
  changes,         \* history: the number of calls of handleSearchChange
  filterRuns       \* history: the number of times useMemo has run filterPokemon

searchVars ==
  <<inputQuery, searchQuery, isPending, transitionQueue, timeouts, debounceRef,
    wip, changes, filterRuns>>

\* throwing-shapes and prime-time: Application (useDeferredValue)
VARIABLES
  shapeCount,          \* useState(1000)
  deferredShapeCount,  \* useDeferredValue(shapeCount), as last committed
  shapesLanePending,   \* a deferred render of throwing-shapes is scheduled
  catchingUpShown,     \* the committed DOM shows "Catching up..."
  liveEpoch,           \* history: the number of changes of shapeCount
  settledEpoch,        \* history: liveEpoch at the last deferred commit
  limit,               \* useState(10000)
  deferredLimit,       \* useDeferredValue(limit), as last committed
  limitLanePending,    \* a deferred render of prime-time is scheduled
  calculatingShown     \* the committed DOM shows "Calculating..."

deferredVars ==
  <<shapeCount, deferredShapeCount, shapesLanePending, catchingUpShown,
    liveEpoch, settledEpoch, limit, deferredLimit, limitLanePending,
    calculatingShown>>

\* Speculative View Engine: Deferred Computation Scheduler
VARIABLES
  live,      \* channel -> the live value
  settled,   \* channel -> the settled value
  pending,   \* channel -> <<[epoch, input, state]>>, the computations scheduled
  touched,   \* history: the channels an operation has named
  calls      \* history: the number of operations performed

schedulerVars == <<live, settled, pending, touched, calls>>

\* anti-social-network: PostForm
VARIABLES
  title,   \* useState(''): the value of the title input
  body     \* useState(''): the value of the body textarea

formVars == <<title, body>>

\* anti-social-network: Application with useTransition (the async action)
VARIABLES
  errorResetHeld,  \* setError(null) of an action waits on the transition lane
  uncaughtError    \* React has rethrown the error of an action and removed the tree

actionVars == <<errorResetHeld, uncaughtError>>

vars ==
  <<effectVars, postVars, engineVars, searchVars, deferredVars, schedulerVars,
    formVars, actionVars>>

\* The variables a specification of one example leaves alone.
nonEffectVars ==
  <<postVars, engineVars, searchVars, deferredVars, schedulerVars, formVars,
    actionVars>>
nonPostVars ==
  <<effectVars, engineVars, searchVars, deferredVars, schedulerVars, formVars,
    actionVars>>
nonEngineVars ==
  <<effectVars, postVars, searchVars, deferredVars, schedulerVars, formVars,
    actionVars>>
nonSearchVars ==
  <<effectVars, postVars, engineVars, deferredVars, schedulerVars, formVars,
    actionVars>>
nonDeferredVars ==
  <<effectVars, postVars, engineVars, searchVars, schedulerVars, formVars,
    actionVars>>
nonChannelVars ==
  <<effectVars, postVars, searchVars, deferredVars, formVars, actionVars>>
nonFormVars ==
  <<effectVars, engineVars, searchVars, deferredVars, schedulerVars, actionVars>>
nonActionVars ==
  <<effectVars, engineVars, searchVars, deferredVars, schedulerVars, formVars>>

\* Version4Fixed is not mounted.
EffectOff ==
  /\ userId = 1
  /\ user = [id |-> 0]
  /\ loading = FALSE
  /\ messages = <<>>
  /\ effects = <<>>
  /\ mounted = FALSE
  /\ publishedBy = 0

\* The post application is not mounted.
PostsOff ==
  /\ posts = <<>>
  /\ isLoading = TRUE
  /\ error = ""
  /\ optimisticQueue = <<>>
  /\ listPc = "off"
  /\ ops = <<>>

\* The engine is not in use.
EngineOff ==
  /\ epoch = <<>>
  /\ base = <<>>
  /\ queue = <<>>
  /\ issued = <<>>
  /\ last = <<>>

\* The search application is not mounted.
SearchOff ==
  /\ inputQuery = <<>>
  /\ searchQuery = <<>>
  /\ isPending = FALSE
  /\ transitionQueue = <<>>
  /\ timeouts = <<>>
  /\ debounceRef = 0
  /\ wip = <<>>
  /\ changes = 0
  /\ filterRuns = 0

\* The deferred-value applications are not mounted.
DeferredOff ==
  /\ shapeCount = 1000
  /\ deferredShapeCount = 1000
  /\ shapesLanePending = FALSE
  /\ catchingUpShown = FALSE
  /\ liveEpoch = 0
  /\ settledEpoch = 0
  /\ limit = 10000
  /\ deferredLimit = 10000
  /\ limitLanePending = FALSE
  /\ calculatingShown = FALSE

\* The scheduler is not in use.
SchedulerOff ==
  /\ live = <<>>
  /\ settled = <<>>
  /\ pending = <<>>
  /\ touched = {}
  /\ calls = 0

\* PostForm is not mounted.
FormOff ==
  /\ title = <<>>
  /\ body = <<>>

\* The useTransition variant of the post application is not mounted.
ActionOff ==
  /\ errorResetHeld = FALSE
  /\ uncaughtError = FALSE

\* The buttons of UserSelector.
USER_IDS == {1, 2, 3, 4, 5}

\* user === null
NoUser == [id |-> 0]

\* What fetchUser(userId) resolves with: the User of that id.
fetchUser(id) == [id |-> id]

\* addMessage(currentUserId, type, ...): setMessages(prev => [...prev, {...}])
addMessage(prev, currentUserId, type) ==
  Append(prev, [type |-> type, userId |-> currentUserId])

\* The effect body for a given userId: `let cancelled = false`, then loadUser()
\* runs synchronously up to its first await.
NewEffect(id) == [userId |-> id, cancelled |-> FALSE, pc |-> "awaiting"]

\* Mutant of Cleanup: the fetch is aborted as well (an AbortController).
Cleanup_Aborts(effs, i) ==
  [effs EXCEPT ![i].cancelled = TRUE,
               ![i].pc = IF @ = "awaiting" THEN "aborted" ELSE @]

\* Mutant of Cleanup: the effect returns no cleanup, so nothing is cancelled.
Cleanup_Missing(effs, i) == effs

\* The cleanup function of run i: cancelled = true.
Cleanup(effs, i) == [effs EXCEPT ![i].cancelled = TRUE]

\* The latest run of the effect.
Latest == Len(effects)

\* The state after mount: the effect has run once for userId 1; under
\* <StrictMode> (development) it has run, been cleaned up and run again.
EffectInit ==
  /\ userId = 1
  /\ user = NoUser
  /\ loading = TRUE
  /\ mounted = TRUE
  /\ publishedBy = 0
  /\ \/ /\ effects = <<NewEffect(1)>>
        /\ messages = addMessage(<<>>, 1, "fetch")
     \/ /\ effects = Append(Cleanup(<<NewEffect(1)>>, 1), NewEffect(1))
        /\ messages = addMessage(addMessage(<<>>, 1, "fetch"), 1, "fetch")

\* Mutant of SelectUser: the cleanup cancels the run that is starting instead
\* of the one that is superseded.
SelectUser_CancelsNew(id) ==
  /\ mounted
  /\ id # userId
  /\ Len(effects) < MaxEffects
  /\ userId' = id
  /\ effects' = Cleanup(Append(effects, NewEffect(id)), Latest + 1)
  /\ loading' = TRUE
  /\ messages' = addMessage(messages, id, "fetch")
  /\ UNCHANGED <<user, mounted, publishedBy>>

\* onSelectUser(id) = setUserId(id). A change of userId re-renders, runs the
\* cleanup of the previous effect and then the effect again; the same value
\* bails out.
SelectUser(id) ==
  /\ mounted
  /\ id # userId
  /\ Len(effects) < MaxEffects
  /\ userId' = id
  /\ effects' = Append(Cleanup(effects, Latest), NewEffect(id))
  /\ loading' = TRUE
  /\ messages' = addMessage(messages, id, "fetch")
  /\ UNCHANGED <<user, mounted, publishedBy>>

\* Mutant of FetchResolved: no `if (!cancelled)` around the state updates
\* (the loadUser of Version2RaceCondition).
FetchResolved_Unfenced(i) ==
  /\ effects[i].pc = "awaiting"
  /\ effects' = [effects EXCEPT ![i].pc = "done"]
  /\ IF mounted
       THEN /\ user' = fetchUser(effects[i].userId)
            /\ publishedBy' = i
            /\ messages' = addMessage(messages, effects[i].userId, "received")
            /\ loading' = FALSE
       ELSE UNCHANGED <<user, publishedBy, messages, loading>>
  /\ UNCHANGED <<userId, mounted>>

\* Mutant of FetchResolved: one `cancelled` flag shared by all runs (declared
\* outside the effect), so a run reads the flag of the latest run.
FetchResolved_SharedFlag(i) ==
  /\ effects[i].pc = "awaiting"
  /\ effects' = [effects EXCEPT ![i].pc = "done"]
  /\ IF ~effects[Latest].cancelled
       THEN /\ user' = fetchUser(effects[i].userId)
            /\ publishedBy' = i
            /\ messages' = addMessage(messages, effects[i].userId, "received")
            /\ loading' = FALSE
       ELSE /\ messages' = IF mounted
                            THEN addMessage(messages, effects[i].userId, "cancelled")
                            ELSE messages
            /\ UNCHANGED <<user, publishedBy, loading>>
  /\ UNCHANGED <<userId, mounted>>

\* Mutant of FetchResolved: a fetch that finds itself cancelled starts the
\* fetch again for the selected user.
FetchResolved_Reschedules(i) ==
  /\ effects[i].pc = "awaiting"
  /\ IF ~effects[i].cancelled
       THEN /\ effects' = [effects EXCEPT ![i].pc = "done"]
            /\ user' = fetchUser(effects[i].userId)
            /\ publishedBy' = i
            /\ messages' = addMessage(messages, effects[i].userId, "received")
            /\ loading' = FALSE
       ELSE /\ effects' = IF Len(effects) < MaxEffects
                            THEN Append([effects EXCEPT ![i].pc = "done"],
                                        NewEffect(userId))
                            ELSE [effects EXCEPT ![i].pc = "done"]
            /\ messages' = IF mounted
                            THEN addMessage(messages, effects[i].userId, "cancelled")
                            ELSE messages
            /\ UNCHANGED <<user, publishedBy, loading>>
  /\ UNCHANGED <<userId, mounted>>

\* `await fetchUser(userId)` of run i resolves: the try block after the await,
\* then finally. A state update of a component that is no longer mounted is
\* ignored.
FetchResolved(i) ==
  /\ effects[i].pc = "awaiting"
  /\ effects' = [effects EXCEPT ![i].pc = "done"]
  /\ IF ~effects[i].cancelled
       THEN /\ user' = fetchUser(effects[i].userId)
            /\ publishedBy' = i
            /\ messages' = addMessage(messages, effects[i].userId, "received")
            /\ loading' = FALSE
       ELSE /\ messages' = IF mounted
                            THEN addMessage(messages, effects[i].userId, "cancelled")
                            ELSE messages
            /\ UNCHANGED <<user, publishedBy, loading>>
  /\ UNCHANGED <<userId, mounted>>

\* Mutant of FetchRejected: finally calls setLoading(false) without the
\* `if (!cancelled)` (the finally of Version2RaceCondition).
FetchRejected_ClearsLoading(i) ==
  /\ effects[i].pc = "awaiting"
  /\ effects' = [effects EXCEPT ![i].pc = "done"]
  /\ messages' = IF ~effects[i].cancelled
                   THEN addMessage(messages, effects[i].userId, "error")
                   ELSE messages
  /\ loading' = IF mounted THEN FALSE ELSE loading
  /\ UNCHANGED <<userId, user, mounted, publishedBy>>

\* `await fetchUser(userId)` of run i rejects: the catch block, then finally.
FetchRejected(i) ==
  /\ effects[i].pc = "awaiting"
  /\ effects' = [effects EXCEPT ![i].pc = "done"]
  /\ IF ~effects[i].cancelled
       THEN /\ messages' = addMessage(messages, effects[i].userId, "error")
            /\ loading' = FALSE
       ELSE UNCHANGED <<messages, loading>>
  /\ UNCHANGED <<userId, user, mounted, publishedBy>>

\* Another tab is selected: <Version4Fixed /> unmounts and the cleanup of the
\* latest run of the effect runs. Selecting the tab again mounts a fresh
\* instance, which the closures of this one cannot reach.
Unmount ==
  /\ mounted
  /\ mounted' = FALSE
  /\ effects' = Cleanup(effects, Latest)
  /\ UNCHANGED <<userId, user, loading, messages, publishedBy>>

EffectNext ==
  \/ \E id \in USER_IDS : SelectUser(id) /\ UNCHANGED nonEffectVars
  \/ \E i \in 1..Len(effects) : FetchResolved(i) /\ UNCHANGED nonEffectVars
  \/ \E i \in 1..Len(effects) : FetchRejected(i) /\ UNCHANGED nonEffectVars
  \/ Unmount /\ UNCHANGED nonEffectVars

InitEffect ==
  EffectInit /\ PostsOff /\ EngineOff /\ SearchOff /\ DeferredOff /\ SchedulerOff
    /\ FormOff /\ ActionOff

SpecEffect == InitEffect /\ [][EffectNext]_vars

\* ------------------------------------------------------------------------
\* Claims on Version4Fixed.
\* The run of the effect is the epoch of the channel "selected user": run i is
\* epoch i, selecting a user allocates the next one (setLive), the fetch of a
\* run is the computation scheduled under it (settle), `user` is the settled
\* value and !cancelled of run i is isCurrent(i).
\* ------------------------------------------------------------------------

\* Run i's fetch completes in this step.
Completes(i) == effects[i].pc = "awaiting" /\ effects'[i].pc = "done"

\* The positions of messages of a type.
Positions(type) == {k \in DOMAIN messages : messages[k].type = type}

\* The greatest element of a non-empty set of numbers.
Max(S) == CHOOSE x \in S : \A y \in S : y <= x

\* C1: a fetch started under an epoch that a later selection has superseded
\* does not change the settled value (user) when it completes, by resolving or
\* by rejecting.
C1_StaleDiscard ==
  [][\A i \in 1..Len(effects) :
       (i < Latest /\ Completes(i)) => user' = user]_vars

\* A superseded fetch has resolved (its 'cancelled' message is logged) and the
\* user shown is not the one it fetched.
C1_Witness ==
  \E k \in Positions("cancelled") : user.id # messages[k].userId

\* C2: the epoch of the published result never decreases, and the settled
\* value changes only when a newer epoch publishes.
C2_NeverRegress ==
  [][/\ publishedBy' >= publishedBy
     /\ (publishedBy' = publishedBy => user' = user)]_vars

\* The newer epoch published first and an older fetch resolved afterwards;
\* the newer result is still shown.
C2_Witness ==
  \E k \in Positions("received"), k2 \in Positions("cancelled") :
    /\ k < k2
    /\ k = Max(Positions("received"))
    /\ publishedBy = Latest
    /\ user = fetchUser(effects[Latest].userId)
    /\ user.id # messages[k2].userId

\* C3: every 'received' (the only place where setUser is called) is for the
\* userId of the latest 'fetch' before it, user is the last received user,
\* and after selecting 1 then 2 before the first fetch completes the user
\* shown is never user 1 and is user 2 once the second fetch has resolved.
C3_OnlyLatestSetsUser ==
  /\ \A k \in Positions("received") :
       messages[k].userId =
         messages[Max({f \in Positions("fetch") : f < k})].userId
  /\ user = IF Positions("received") = {} THEN NoUser
            ELSE fetchUser(messages[Max(Positions("received"))].userId)
  /\ (Len(effects) = 2 /\ Len(messages) >= 2 /\ messages[2].type = "fetch"
        /\ effects[2].userId = 2)
       => /\ user.id # 1
          /\ (effects[2].pc = "done" /\ Positions("received") # {}) => user.id = 2

\* 1 then 2 were selected, the fetch of 1 resolved after the selection of 2
\* and both fetches are done: user 2 is shown.
C3_Witness ==
  /\ Len(effects) = 2
  /\ effects[2].userId = 2
  /\ messages[2].type = "fetch"
  /\ Positions("cancelled") # {}
  /\ user.id = 2

\* C4: runs are numbered in the order they start; while the component is
\* mounted exactly the latest run has cancelled = false, and no run has after
\* it unmounted; a cancelled run stays cancelled; every change of userId
\* starts exactly one new run.
C4_EpochMonotonic ==
  /\ [](\A i \in 1..Len(effects) :
          (~effects[i].cancelled) <=> (mounted /\ i = Latest))
  /\ [][/\ Len(effects') >= Len(effects)
        /\ \A i \in 1..Len(effects) :
             /\ effects'[i].userId = effects[i].userId
             /\ effects[i].cancelled => effects'[i].cancelled
        /\ (userId' # userId) <=> (Len(effects') = Len(effects) + 1)]_vars

\* Three epochs have been allocated; the first two are stale.
C4_Witness ==
  /\ Len(effects) >= 3
  /\ effects[1].cancelled /\ effects[2].cancelled

\* C15, as stated: a fetch that completes and finds itself cancelled leaves
\* user alone, starts nothing, and a later run of the effect has already
\* started its fetch.
C15_LaterSettleScheduled ==
  [][\A i \in 1..Len(effects) :
       (Completes(i) /\ effects[i].cancelled) =>
         /\ user' = user
         /\ Len(effects') = Len(effects)
         /\ i < Latest]_vars

\* C15, amended: a fetch that completes and finds itself cancelled leaves
\* user and loading alone and starts nothing; a later run of the effect has
\* already started its fetch (and, while the component is mounted, the latest
\* one is current) unless the run was cancelled by the unmount of the
\* component, after which no run is current.
C15_StaleDiscardNoReschedule ==
  [][\A i \in 1..Len(effects) :
       (Completes(i) /\ effects[i].cancelled) =>
         /\ user' = user /\ loading' = loading
         /\ Len(effects') = Len(effects)
         /\ mounted => (i < Latest /\ ~effects[Latest].cancelled)
         /\ i = Latest => ~mounted]_vars

\* A superseded fetch completed while the component was mounted (its
\* 'cancelled' message is logged), and after the unmount the fetch of the
\* latest run completed too, with no later run.
C15_Witness ==
  /\ ~mounted
  /\ Positions("cancelled") # {}
  /\ effects[Latest].pc = "done"
  /\ effects[Latest].cancelled

\* C16: cancelling a run (by a new selection or by the unmount) leaves its
\* fetch in flight; the only change of a run's position is the completion of
\* its own fetch; and a cancelled fetch that completes changes neither user
\* nor loading: resolved, it logs 'cancelled' (if the component is mounted).
C16_CooperativeCancellation ==
  [][\A i \in 1..Len(effects) :
       /\ (~effects[i].cancelled /\ effects'[i].cancelled)
            => effects'[i].pc = effects[i].pc
       /\ effects'[i].pc # effects[i].pc => Completes(i)
       /\ (Completes(i) /\ effects[i].cancelled) =>
            /\ user' = user /\ loading' = loading
            /\ \/ messages' = messages
               \/ mounted /\ messages' =
                    addMessage(messages, effects[i].userId, "cancelled")]_vars

\* Of three runs the first was superseded and has completed, logging
\* 'cancelled'; the second is superseded and still in flight.
C16_Witness ==
  /\ Len(effects) = 3
  /\ effects[1].cancelled /\ effects[1].pc = "done"
  /\ effects[2].cancelled /\ effects[2].pc = "awaiting"
  /\ \E k \in Positions("cancelled") : messages[k].userId = effects[1].userId
  /\ user.id # effects[1].userId

\* C27: while Version4Fixed is mounted, loading is true exactly while the
\* fetch of the latest run of the effect (the one for the selected userId) is
\* in flight; the fetch that completes without being cancelled is the latest
\* one and its completion, resolved or rejected, sets loading to false; the
\* completion of a cancelled fetch leaves loading as it is.
C27_LoadingTracksLatest ==
  /\ [](mounted =>
          /\ effects[Latest].userId = userId
          /\ loading <=> effects[Latest].pc = "awaiting")
  /\ [][\A i \in 1..Len(effects) :
          /\ (Completes(i) /\ ~effects[i].cancelled) => (i = Latest /\ ~loading')
          /\ (Completes(i) /\ effects[i].cancelled) => loading' = loading]_vars

\* After two selections the fetch of the latest run has failed and loading is
\* false; the two superseded fetches have completed too, one of them after
\* the latest, each leaving loading as it was.
C27_Witness ==
  /\ mounted
  /\ Len(effects) = 3
  /\ \A i \in 1..3 : effects[i].pc = "done"
  /\ ~loading
  /\ \E k \in Positions("error") : messages[k].userId = userId
  /\ messages[Len(messages)].type = "cancelled"

\* ------------------------------------------------------------------------
\* effect-essentials: Version2RaceCondition. The component declares the same
\* state as Version4Fixed (userId, user, loading, messages); its effect has no
\* `cancelled` flag and returns no cleanup, so a run is [userId, pc].
\* ------------------------------------------------------------------------

\* The effect body of Version2RaceCondition for a given userId: loadUser()
\* runs synchronously up to its first await.
NewLoad(id) == [userId |-> id, pc |-> "awaiting"]

\* UserProfileCard: const mismatch = user.id !== selectedUserId
mismatch(u, selectedUserId) == u.id # selectedUserId

\* UserProfileCard renders the 'Race condition detected!' banner: it is past
\* the loading and the !user returns, and mismatch is true.
RaceConditionDetected ==
  /\ ~loading
  /\ user # NoUser
  /\ mismatch(user, userId)

\* The state after mount of Version2RaceCondition: the effect has run once
\* for userId 1; under <StrictMode> it has run twice, and with no cleanup both
\* fetches are in flight.
RaceInit ==
  /\ userId = 1
  /\ user = NoUser
  /\ loading = TRUE
  /\ mounted = TRUE
  /\ publishedBy = 0
  /\ \/ /\ effects = <<NewLoad(1)>>
        /\ messages = addMessage(<<>>, 1, "fetch")
     \/ /\ effects = <<NewLoad(1), NewLoad(1)>>
        /\ messages = addMessage(addMessage(<<>>, 1, "fetch"), 1, "fetch")

\* onSelectUser(id) = setUserId(id): the effect runs again; there is no
\* cleanup of the previous run.
RaceSelectUser(id) ==
  /\ mounted
  /\ id # userId
  /\ Len(effects) < MaxEffects
  /\ userId' = id
  /\ effects' = Append(effects, NewLoad(id))
  /\ loading' = TRUE
  /\ messages' = addMessage(messages, id, "fetch")
  /\ UNCHANGED <<user, mounted, publishedBy>>

\* Mutant of RaceFetchResolved: the result is applied only if the run is the
\* latest one.
RaceFetchResolved_Fenced(i) ==
  /\ effects[i].pc = "awaiting"
  /\ effects' = [effects EXCEPT ![i].pc = "done"]
  /\ IF mounted /\ i = Latest
       THEN /\ user' = fetchUser(effects[i].userId)
            /\ publishedBy' = i
            /\ messages' = addMessage(messages, effects[i].userId, "received")
            /\ loading' = FALSE
       ELSE UNCHANGED <<user, publishedBy, messages, loading>>
  /\ UNCHANGED <<userId, mounted>>

\* `await fetchUser(userId)` of run i resolves: setUser, addMessage, and
\* setLoading(false) in finally, whatever userId is by now. A state update of
\* a component that is no longer mounted is ignored.
RaceFetchResolved(i) ==
  /\ effects[i].pc = "awaiting"
  /\ effects' = [effects EXCEPT ![i].pc = "done"]
  /\ IF mounted
       THEN /\ user' = fetchUser(effects[i].userId)
            /\ publishedBy' = i
            /\ messages' = addMessage(messages, effects[i].userId, "received")
            /\ loading' = FALSE
       ELSE UNCHANGED <<user, publishedBy, messages, loading>>
  /\ UNCHANGED <<userId, mounted>>

\* `await fetchUser(userId)` of run i rejects: the catch block, then finally.
RaceFetchRejected(i) ==
  /\ effects[i].pc = "awaiting"
  /\ effects' = [effects EXCEPT ![i].pc = "done"]
  /\ IF mounted
       THEN /\ messages' = addMessage(messages, effects[i].userId, "error")
            /\ loading' = FALSE
       ELSE UNCHANGED <<messages, loading>>
  /\ UNCHANGED <<userId, user, mounted, publishedBy>>

\* Another tab is selected: <Version2RaceCondition /> unmounts; no cleanup
\* runs.
RaceUnmount ==
  /\ mounted
  /\ mounted' = FALSE
  /\ UNCHANGED <<userId, user, loading, messages, effects, publishedBy>>

RaceNext ==
  \/ \E id \in USER_IDS : RaceSelectUser(id) /\ UNCHANGED nonEffectVars
  \/ \E i \in 1..Len(effects) : RaceFetchResolved(i) /\ UNCHANGED nonEffectVars
  \/ \E i \in 1..Len(effects) : RaceFetchRejected(i) /\ UNCHANGED nonEffectVars
  \/ RaceUnmount /\ UNCHANGED nonEffectVars

InitRace ==
  RaceInit /\ PostsOff /\ EngineOff /\ SearchOff /\ DeferredOff /\ SchedulerOff
    /\ FormOff /\ ActionOff

SpecRace == InitRace /\ [][RaceNext]_vars

\* C22: in Version2RaceCondition a fetch that completes without an error
\* while the component is mounted sets user to the user it fetched and loading to false, whichever
\* user is selected by then; when it is the fetch of a user that is no longer
\* selected, the card shows the mismatch banner.
C22_RaceReachable ==
  [][\A i \in 1..Len(effects) :
       (Completes(i) /\ mounted
          /\ messages' # addMessage(messages, effects[i].userId, "error"))
         => /\ user' = fetchUser(effects[i].userId)
            /\ messages' = addMessage(messages, effects[i].userId, "received")
            /\ ~loading'
            /\ (effects[i].userId # userId => RaceConditionDetected')]_vars

\* User 1 was fetched at mount, user 2 was selected, the request of user 2
\* resolved first and the request of user 1 after it: user 2 is selected,
\* user 1 is shown, loading is false and the banner is rendered.
C22_Witness ==
  /\ mounted
  /\ Len(effects) = 2
  /\ effects[1].userId = 1 /\ effects[2].userId = 2
  /\ [k \in DOMAIN messages |-> <<messages[k].type, messages[k].userId>>]
       = << <<"fetch", 1>>, <<"fetch", 2>>, <<"received", 2>>, <<"received", 1>> >>
  /\ userId = 2
  /\ user.id = 1
  /\ ~loading
  /\ RaceConditionDetected

\* C28, as stated (Version4Fixed): while the component is mounted and loading
\* is false, the displayed user is null or the selected one, so
\* UserProfileCard never shows 'Race condition detected'.
C28_NoMismatch ==
  (mounted /\ ~loading) =>
    /\ user = NoUser \/ user.id = userId
    /\ ~RaceConditionDetected

\* Version4Fixed: user 1 was received, user 2 was selected and its fetch
\* failed: loading is false, the displayed user is still user 1 and the
\* selected userId is 2.
C28_MismatchAfterFailure ==
  /\ mounted /\ ~loading
  /\ userId = 2 /\ user = fetchUser(1)
  /\ effects[Latest].userId = 2 /\ effects[Latest].pc = "done"
  /\ ~effects[Latest].cancelled
  /\ messages[Len(messages)].type = "error"
  /\ messages[Len(messages)].userId = 2
  /\ RaceConditionDetected

\* ------------------------------------------------------------------------
\* anti-social-network: Application with useOptimistic
\* ------------------------------------------------------------------------

\* What listPosts({ _limit: 10 }) resolves with.
ListedPosts == <<[id |-> 1, isPending |-> FALSE], [id |-> 2, isPending |-> FALSE]>>

\* The id of the post createPost resolves with for call i (assigned by the
\* server, distinct per call).
ServerId(i) == 100 + i

\* Date.now() at call i of handleCreatePost (calls are made at distinct times).
DateNow(i) == 1000 + i

\* Mutant of optimisticReducer: the isPending test is dropped, every action
\* is treated as a delete.
optimisticReducer_NoAdd(state, newPost) ==
  SelectSeq(state, LAMBDA post : post.id # newPost.id)

\* The reducer given to useOptimistic.
optimisticReducer(state, newPost) ==
  IF newPost.isPending
    THEN <<newPost>> \o state
    ELSE SelectSeq(state, LAMBDA post : post.id # newPost.id)

\* useOptimistic(posts, reducer): the passthrough value with the pending
\* optimistic updates applied in the order they were dispatched.
RECURSIVE useOptimistic(_, _)
useOptimistic(state, updates) ==
  IF updates = <<>> THEN state
  ELSE useOptimistic(optimisticReducer(state, Head(updates)), Tail(updates))

optimisticPosts == useOptimistic(posts, optimisticQueue)

\* The posts of a list as a set.
Shown(list) == {list[k] : k \in DOMAIN list}

PostsInit ==
  /\ posts = <<>>
  /\ isLoading = TRUE
  /\ error = ""
  /\ optimisticQueue = <<>>
  /\ listPc = "awaiting"
  /\ ops = <<>>

\* fetchPosts of the mount effect: `await listPosts(...)` resolves.
FetchPostsResolved ==
  /\ listPc = "awaiting"
  /\ listPc' = "done"
  /\ posts' = ListedPosts
  /\ isLoading' = FALSE
  /\ UNCHANGED <<error, optimisticQueue, ops>>

\* fetchPosts of the mount effect: `await listPosts(...)` rejects.
FetchPostsRejected ==
  /\ listPc = "awaiting"
  /\ listPc' = "done"
  /\ error' = "Failed to load posts. Please try again."
  /\ isLoading' = FALSE
  /\ UNCHANGED <<posts, optimisticQueue, ops>>

\* Mutant of HandleCreatePost: the temporary post is put into posts by hand
\* instead of being dispatched to useOptimistic.
HandleCreatePost_IntoPosts ==
  /\ Len(ops) < MaxOps
  /\ LET tempPost == [id |-> DateNow(Len(ops) + 1), isPending |-> TRUE] IN
       /\ error' = ""
       /\ posts' = <<tempPost>> \o posts
       /\ ops' = Append(ops, [kind |-> "create", post |-> tempPost, pc |-> "awaiting"])
  /\ UNCHANGED <<optimisticQueue, isLoading, listPc>>

\* handleCreatePost up to `await createPost(...)`.
HandleCreatePost ==
  /\ Len(ops) < MaxOps
  /\ LET tempPost == [id |-> DateNow(Len(ops) + 1), isPending |-> TRUE] IN
       /\ error' = ""
       /\ optimisticQueue' = Append(optimisticQueue, tempPost)
       /\ ops' = Append(ops, [kind |-> "create", post |-> tempPost, pc |-> "awaiting"])
  /\ UNCHANGED <<posts, isLoading, listPc>>

\* Mutant of CreateResolved: the post put into posts keeps the temporary id.
CreateResolved_TemporaryId(i) ==
  /\ ops[i].kind = "create" /\ ops[i].pc = "awaiting"
  /\ ops' = [ops EXCEPT ![i].pc = "done"]
  /\ posts' = <<[id |-> ops[i].post.id, isPending |-> FALSE]>> \o posts
  /\ UNCHANGED <<isLoading, error, optimisticQueue, listPc>>

\* `await createPost(...)` of call i resolves.
CreateResolved(i) ==
  /\ ops[i].kind = "create" /\ ops[i].pc = "awaiting"
  /\ ops' = [ops EXCEPT ![i].pc = "done"]
  /\ posts' = <<[id |-> ServerId(i), isPending |-> FALSE]>> \o posts
  /\ UNCHANGED <<isLoading, error, optimisticQueue, listPc>>

\* Mutant of CreateRejected: the catch block keeps the failed post in posts.
CreateRejected_KeepsDraft(i) ==
  /\ ops[i].kind = "create" /\ ops[i].pc = "awaiting"
  /\ ops' = [ops EXCEPT ![i].pc = "failed"]
  /\ error' = "Failed to create post. Please try again."
  /\ posts' = <<ops[i].post>> \o posts
  /\ UNCHANGED <<isLoading, optimisticQueue, listPc>>

\* `await createPost(...)` of call i rejects.
CreateRejected(i) ==
  /\ ops[i].kind = "create" /\ ops[i].pc = "awaiting"
  /\ ops' = [ops EXCEPT ![i].pc = "failed"]
  /\ error' = "Failed to create post. Please try again."
  /\ UNCHANGED <<posts, isLoading, optimisticQueue, listPc>>

\* handleDeletePost(id) up to `await removePost(id)`; id is the id of a post
\* PostList shows with its Delete button enabled.
HandleDeletePost(id) ==
  /\ Len(ops) < MaxOps
  /\ ~isLoading
  /\ \E post \in Shown(optimisticPosts) : post.id = id /\ ~post.isPending
  /\ error' = ""
  /\ IF \E post \in Shown(posts) : post.id = id
       THEN LET postToDelete == posts[CHOOSE k \in DOMAIN posts :
                                        /\ posts[k].id = id
                                        /\ \A j \in 1..(k - 1) : posts[j].id # id]
            IN /\ optimisticQueue' = Append(optimisticQueue, postToDelete)
               /\ ops' = Append(ops, [kind |-> "delete", post |-> postToDelete,
                                      pc |-> "awaiting"])
       ELSE UNCHANGED <<optimisticQueue, ops>>
  /\ UNCHANGED <<posts, isLoading, listPc>>

\* `await removePost(id)` of call i resolves.
RemoveResolved(i) ==
  /\ ops[i].kind = "delete" /\ ops[i].pc = "awaiting"
  /\ ops' = [ops EXCEPT ![i].pc = "done"]
  /\ posts' = SelectSeq(posts, LAMBDA post : post.id # ops[i].post.id)
  /\ UNCHANGED <<isLoading, error, optimisticQueue, listPc>>

\* `await removePost(id)` of call i rejects.
RemoveRejected(i) ==
  /\ ops[i].kind = "delete" /\ ops[i].pc = "awaiting"
  /\ ops' = [ops EXCEPT ![i].pc = "failed"]
  /\ error' = "Failed to delete post. Please try again."
  /\ UNCHANGED <<posts, isLoading, optimisticQueue, listPc>>

\* React renders the lane on which the optimistic updates revert. The
\* updates are dispatched outside any transition or action, so nothing holds
\* that render back: it may happen at any time after the update was shown.
RevertOptimistic ==
  /\ optimisticQueue # <<>>
  /\ optimisticQueue' = <<>>
  /\ UNCHANGED <<posts, isLoading, error, listPc, ops>>

PostsNext ==
  \/ FetchPostsResolved /\ UNCHANGED nonPostVars
  \/ FetchPostsRejected /\ UNCHANGED nonPostVars
  \/ HandleCreatePost /\ UNCHANGED nonPostVars
  \/ \E i \in 1..Len(ops) : CreateResolved(i) /\ UNCHANGED nonPostVars
  \/ \E i \in 1..Len(ops) : CreateRejected(i) /\ UNCHANGED nonPostVars
  \/ \E id \in {post.id : post \in Shown(optimisticPosts)} :
       HandleDeletePost(id) /\ UNCHANGED nonPostVars
  \/ \E i \in 1..Len(ops) : RemoveResolved(i) /\ UNCHANGED nonPostVars
  \/ \E i \in 1..Len(ops) : RemoveRejected(i) /\ UNCHANGED nonPostVars
  \/ RevertOptimistic /\ UNCHANGED nonPostVars

InitPosts ==
  PostsInit /\ EffectOff /\ EngineOff /\ SearchOff /\ DeferredOff /\ SchedulerOff
    /\ FormOff /\ ActionOff

SpecPosts == InitPosts /\ [][PostsNext]_vars

\* C10: at the end of the synchronous part of handleCreatePost the temporary
\* post is in optimisticPosts, and at the end of the synchronous part of
\* handleDeletePost the post is no longer in optimisticPosts, while the call
\* of createPost / removePost has not completed.
C10_ProposeVisible ==
  [][Len(ops') > Len(ops) =>
       LET op == ops'[Len(ops')]
           shown == Shown(useOptimistic(posts', optimisticQueue'))
       IN /\ op.pc = "awaiting"
          /\ IF op.kind = "create"
               THEN op.post \in shown
               ELSE /\ op.post \in Shown(posts')
                    /\ \A post \in shown : post.id # op.post.id]_vars

\* A create and a delete are both awaiting their API call; the temporary post
\* is shown and the deleted post, still in posts, is not.
C10_Witness ==
  \E i, j \in DOMAIN ops :
    /\ ops[i].kind = "create" /\ ops[i].pc = "awaiting"
    /\ ops[i].post \in Shown(optimisticPosts)
    /\ ops[j].kind = "delete" /\ ops[j].pc = "awaiting"
    /\ ops[j].post \in Shown(posts)
    /\ ops[j].post \notin Shown(optimisticPosts)

\* React renders every lane it has scheduled, so the render that drops the
\* optimistic updates does happen.
SpecPostsFair ==
  SpecPosts /\ WF_vars(RevertOptimistic /\ UNCHANGED nonPostVars)

\* The createPost of call i has resolved in this step.
Completes_Create(i) == ops[i].pc = "awaiting" /\ ops'[i].pc = "done"

\* Call i has failed in this step.
Fails(i) == ops[i].pc = "awaiting" /\ ops'[i].pc = "failed"

C20_AutomaticReversion ==
  /\ [][\A i \in DOMAIN ops : Fails(i) => (posts' = posts /\ error' # "")]_vars
  /\ [](\A i \in DOMAIN ops :
          ops[i].kind = "create" => ops[i].post \notin Shown(posts))
  /\ \A i \in 1..MaxOps :
       (i \in DOMAIN ops /\ ops[i].pc = "failed") ~> (optimisticPosts = posts)

\* A create and a delete have both failed, the error is shown, posts is the
\* list as loaded and optimisticPosts equals it.
C20_Witness ==
  \E i, j \in DOMAIN ops :
    /\ ops[i].kind = "create" /\ ops[i].pc = "failed"
    /\ ops[j].kind = "delete" /\ ops[j].pc = "failed"
    /\ error # ""
    /\ posts = ListedPosts
    /\ optimisticPosts = posts

\* The number of posts of a list with a given id.
Count(list, id) == Cardinality({k \in DOMAIN list : list[k].id = id})

\* Call i is a create whose createPost has resolved.
Created(i) == i \in DOMAIN ops /\ ops[i].kind = "create" /\ ops[i].pc = "done"

C29_NoConfirmedPostLost ==
  \A i \in DOMAIN ops :
    (/\ Created(i)
     /\ \A k \in DOMAIN ops :
          ~(ops[k].kind = "delete" /\ ops[k].post.id = ServerId(i)))
      => Count(posts, ServerId(i)) = 1

\* Two creates were in flight together with the initial load and both have
\* succeeded; the load has then resolved and posts is the loaded list, with
\* neither server post.
C29_Lost ==
  /\ Len(ops) = 2
  /\ Created(1) /\ Created(2)
  /\ listPc = "done" /\ ~isLoading /\ error = ""
  /\ posts = ListedPosts
  /\ Count(posts, ServerId(1)) = 0 /\ Count(posts, ServerId(2)) = 0

\* ------------------------------------------------------------------------
\* anti-social-network: PostForm, given handleCreatePost of the useOptimistic
\* variant as onSubmit. Strings are sequences of characters.
\* ------------------------------------------------------------------------

\* What the user may leave in the title input and in the body textarea.
Titles == {<<>>, <<" ">>, <<"a">>, <<" ", "a">>}
Bodies == {<<>>, <<"b">>}

\* s.trim()
trim(s) ==
  LET kept == {k \in DOMAIN s : s[k] # " "} IN
    IF kept = {} THEN <<>>
    ELSE SubSeq(s, CHOOSE k \in kept : \A j \in kept : k <= j, Max(kept))

\* The state after mount of Application and of the PostForm in it.
FormInit ==
  /\ PostsInit
  /\ title = <<>>
  /\ body = <<>>

\* onChange={(e) => setTitle(e.target.value)}
SetTitle(value) ==
  /\ value # title
  /\ title' = value
  /\ UNCHANGED <<body, postVars>>

\* onChange={(e) => setBody(e.target.value)}
SetBody(value) ==
  /\ value # body
  /\ body' = value
  /\ UNCHANGED <<title, postVars>>

\* handleSubmit up to `await onSubmit({ title, body })`: it returns early on a
\* blank title or body, and otherwise runs handleCreatePost up to its await.
HandleSubmit ==
  /\ trim(title) # <<>> /\ trim(body) # <<>>
  /\ HandleCreatePost
  /\ UNCHANGED <<title, body>>

\* createPost of call i resolves: handleCreatePost finishes its try block and
\* returns; `await onSubmit(...)` resolves and handleSubmit clears the fields.
SubmitResolved(i) ==
  /\ CreateResolved(i)
  /\ title' = <<>>
  /\ body' = <<>>

\* createPost of call i rejects: handleCreatePost catches the error and
\* returns normally; `await onSubmit(...)` resolves all the same and
\* handleSubmit clears the fields.
SubmitRejected(i) ==
  /\ CreateRejected(i)
  /\ title' = <<>>
  /\ body' = <<>>

FormNext ==
  \/ \E value \in Titles : SetTitle(value) /\ UNCHANGED nonFormVars
  \/ \E value \in Bodies : SetBody(value) /\ UNCHANGED nonFormVars
  \/ HandleSubmit /\ UNCHANGED nonFormVars
  \/ \E i \in 1..Len(ops) : SubmitResolved(i) /\ UNCHANGED nonFormVars
  \/ \E i \in 1..Len(ops) : SubmitRejected(i) /\ UNCHANGED nonFormVars
  \/ FetchPostsResolved /\ UNCHANGED formVars /\ UNCHANGED nonFormVars
  \/ FetchPostsRejected /\ UNCHANGED formVars /\ UNCHANGED nonFormVars
  \/ RevertOptimistic /\ UNCHANGED formVars /\ UNCHANGED nonFormVars

InitForm ==
  FormInit /\ EffectOff /\ EngineOff /\ SearchOff /\ DeferredOff /\ SchedulerOff
    /\ ActionOff

SpecForm == InitForm /\ [][FormNext]_vars

\* C25, as stated: the fields are cleared in the step in which a create
\* succeeds and in no other; when the create of a submission fails, title and
\* body keep what was entered.
C25_ClearedOnlyOnSuccess ==
  [][/\ \A i \in DOMAIN ops : Fails(i) => (title' = title /\ body' = body)
     /\ \A i \in DOMAIN ops :
          (ops[i].kind = "create" /\ Completes_Create(i))
            => (title' = <<>> /\ body' = <<>>)]_vars

\* ------------------------------------------------------------------------
\* anti-social-network: Application with useTransition. handleCreatePost runs
\* its body as an async action, startTransition(async () => {...}); the state
\* is that of the useOptimistic variant (posts, isLoading, error and the
\* optimistic updates). While an action is pending React holds the updates
\* made on its transition lane and keeps the optimistic updates; when no
\* action is pending it renders that lane, which drops the optimistic updates
\* and rethrows the error of an action that rejected.
\* ------------------------------------------------------------------------

\* crypto.randomUUID() at call i of handleCreatePost.
RandomUUID(i) == 2000 + i

\* The state after mount.
ActionInit ==
  /\ PostsInit
  /\ errorResetHeld = FALSE
  /\ uncaughtError = FALSE

\* An async action has not settled.
ActionPending ==
  \E i \in DOMAIN ops : ops[i].kind = "create" /\ ops[i].pc = "awaiting"

\* fetchPosts of the mount effect resolves.
ActionFetchPostsResolved ==
  /\ ~uncaughtError
  /\ FetchPostsResolved
  /\ UNCHANGED actionVars

\* fetchPosts of the mount effect rejects; its setError is not on the
\* transition lane and comes after any setError(null) held there.
ActionFetchPostsRejected ==
  /\ ~uncaughtError
  /\ FetchPostsRejected
  /\ errorResetHeld' = FALSE
  /\ UNCHANGED uncaughtError

\* handleCreatePost: the action up to `await createPost(...)`. setError(null)
\* is an update of the transition; addOptimisticPost shows at once.
ActionCreatePost ==
  /\ ~uncaughtError
  /\ Len(ops) < MaxOps
  /\ LET temporary == [id |-> RandomUUID(Len(ops) + 1), isPending |-> TRUE] IN
       /\ optimisticQueue' = Append(optimisticQueue, temporary)
       /\ ops' = Append(ops, [kind |-> "create", post |-> temporary, pc |-> "awaiting"])
  /\ errorResetHeld' = TRUE
  /\ UNCHANGED <<posts, isLoading, error, listPc, uncaughtError>>

\* `await createPost(...)` of action i resolves: setPosts, then the dispatch
\* that removes the optimistic post.
ActionCreateResolved(i) ==
  /\ ~uncaughtError
  /\ ops[i].kind = "create" /\ ops[i].pc = "awaiting"
  /\ ops' = [ops EXCEPT ![i].pc = "done"]
  /\ posts' = <<[id |-> ServerId(i), isPending |-> FALSE]>> \o posts
  /\ optimisticQueue' =
       Append(optimisticQueue, [ops[i].post EXCEPT !.isPending = FALSE])
  /\ UNCHANGED <<isLoading, error, listPc, errorResetHeld, uncaughtError>>

\* `await createPost(...)` of action i rejects: the catch block starts with
\* addOptimisticPost({ ...temporary, isPending: false }), but `temporary` is a
\* const of the try block and is not in scope in the catch block, so
\* evaluating it throws a ReferenceError; the dispatch and the setError after
\* it do not run and the action rejects.
ActionCreateRejected(i) ==
  /\ ~uncaughtError
  /\ ops[i].kind = "create" /\ ops[i].pc = "awaiting"
  /\ ops' = [ops EXCEPT ![i].pc = "threw"]
  /\ UNCHANGED <<posts, isLoading, error, optimisticQueue, listPc,
                 errorResetHeld, uncaughtError>>

\* handleDeletePost(id) up to `await removePost(id)`; id is the id of a post
\* PostList shows with its Delete button enabled. Nothing is dispatched to
\* useOptimistic.
ActionDeletePost(id) ==
  /\ ~uncaughtError
  /\ Len(ops) < MaxOps
  /\ ~isLoading
  /\ \E post \in Shown(optimisticPosts) : post.id = id /\ ~post.isPending
  /\ error' = ""
  /\ errorResetHeld' = FALSE
  /\ ops' = Append(ops, [kind |-> "delete", post |-> [id |-> id, isPending |-> FALSE],
                         pc |-> "awaiting"])
  /\ UNCHANGED <<posts, isLoading, optimisticQueue, listPc, uncaughtError>>

\* `await removePost(id)` of call i resolves.
ActionRemoveResolved(i) ==
  /\ ~uncaughtError
  /\ RemoveResolved(i)
  /\ UNCHANGED actionVars

\* `await removePost(id)` of call i rejects.
ActionRemoveRejected(i) ==
  /\ ~uncaughtError
  /\ RemoveRejected(i)
  /\ errorResetHeld' = FALSE
  /\ UNCHANGED uncaughtError

\* No action is pending and React renders the transition lane: the held
\* setError(null) applies, the optimistic updates are dropped, and the error
\* of an action that rejected is rethrown; Application is under no error
\* boundary, so React removes the tree.
ActionSettled ==
  /\ ~uncaughtError
  /\ ~ActionPending
  /\ optimisticQueue # <<>> \/ errorResetHeld
  /\ optimisticQueue' = <<>>
  /\ error' = IF errorResetHeld THEN "" ELSE error
  /\ errorResetHeld' = FALSE
  /\ uncaughtError' = \E i \in DOMAIN ops : ops[i].pc = "threw"
  /\ UNCHANGED <<posts, isLoading, listPc, ops>>

ActionNext ==
  \/ ActionFetchPostsResolved /\ UNCHANGED nonActionVars
  \/ ActionFetchPostsRejected /\ UNCHANGED nonActionVars
  \/ ActionCreatePost /\ UNCHANGED nonActionVars
  \/ \E i \in 1..Len(ops) : ActionCreateResolved(i) /\ UNCHANGED nonActionVars
  \/ \E i \in 1..Len(ops) : ActionCreateRejected(i) /\ UNCHANGED nonActionVars
  \/ \E id \in {post.id : post \in Shown(optimisticPosts)} :
       ActionDeletePost(id) /\ UNCHANGED nonActionVars
  \/ \E i \in 1..Len(ops) : ActionRemoveResolved(i) /\ UNCHANGED nonActionVars
  \/ \E i \in 1..Len(ops) : ActionRemoveRejected(i) /\ UNCHANGED nonActionVars
  \/ ActionSettled /\ UNCHANGED nonActionVars

InitAction ==
  ActionInit /\ EffectOff /\ EngineOff /\ SearchOff /\ DeferredOff /\ SchedulerOff
    /\ FormOff

SpecAction == InitAction /\ [][ActionNext]_vars

\* The createPost of action i has rejected in this step.
ActionFails(i) ==
  /\ ops[i].kind = "create" /\ ops[i].pc = "awaiting"
  /\ ops'[i].pc \in {"failed", "threw"}

\* C24, as stated: when createPost of an action rejects, the catch block
\* dispatches the temporary post with isPending false, which removes the
\* optimistic post from the displayed list, and sets the error message.
C24_CatchRemovesAndReports ==
  [][\A i \in DOMAIN ops :
       ActionFails(i) =>
         /\ optimisticQueue' =
              Append(optimisticQueue, [ops[i].post EXCEPT !.isPending = FALSE])
         /\ Count(useOptimistic(posts', optimisticQueue'), ops[i].post.id) = 0
         /\ error' = "Failed to create post. Please try again."]_vars

\* The only create has rejected: no message was set, and React has rethrown
\* the error of the action and removed the tree.
C24_Thrown ==
  /\ Len(ops) = 1
  /\ ops[1].pc = "threw"
  /\ error = ""
  /\ uncaughtError

\* ------------------------------------------------------------------------
\* Speculative View Engine: Epoch Tracker (4.1) and Mutation Overlay (4.2).
\* The repository holds no implementation of this interface (its examples
\* call React's useOptimistic instead), so these definitions follow the
\* specification's contract.
\* ------------------------------------------------------------------------

\* The channels in use.
Channels == {"posts", "search"}

\* The channels configured with overlay semantics (writes); "search" is
\* configured with deferred semantics (reads) only.
OverlayChannels == {"posts"}

\* The authoritative value every channel starts with.
InitialBase == 10

\* The authoritative values a caller may supply to reconcile.
BaseValues == {10, 12, 13}

\* The apply functions callers propose: x => x + 1, x => x + 2, x => x * 2.
Mutations ==
  {[op |-> "add", k |-> 1], [op |-> "add", k |-> 2], [op |-> "mul", k |-> 2]}

\* m.apply(x)
Apply(m, x) == IF m.op = "add" THEN x + m.k ELSE x * m.k

\* foldLeft(b, q, m => m.apply)
RECURSIVE foldLeft(_, _)
foldLeft(b, q) ==
  IF q = <<>> THEN b ELSE foldLeft(Apply(Head(q).apply, b), Tail(q))

\* view(channel)
view(c) == foldLeft(base[c], queue[c])

\* isCurrent(channel, epoch)
isCurrent(c, e) == e = epoch[c]

\* currentEpoch(channel)
currentEpoch(c) == epoch[c]

\* Whether the mutation of handle id is still queued on channel c.
InQueue(c, id) == \E k \in DOMAIN queue[c] : queue[c][k].id = id

\* Mutant of Without: removes the most recent mutation, whatever the handle.
Without_Last(q, id) == SubSeq(q, 1, Len(q) - 1)

\* The queue q without the mutation of handle id.
Without(q, id) == SelectSeq(q, LAMBDA m : m.id # id)

\* What an operation leaves in `last`.
Did(op, c, id, newBase, applied) ==
  [op |-> op, channel |-> c, id |-> id, newBase |-> newBase, applied |-> applied]

\* Mutant of EngineInit: the epoch counters start at 1.
EngineInit_FromOne ==
  /\ epoch = [c \in Channels |-> 1]
  /\ base = [c \in Channels |-> InitialBase]
  /\ queue = [c \in Channels |-> <<>>]
  /\ issued = <<>>
  /\ last = Did("none", "posts", 0, 0, FALSE)

EngineInit ==
  /\ epoch = [c \in Channels |-> 0]
  /\ base = [c \in Channels |-> InitialBase]
  /\ queue = [c \in Channels |-> <<>>]
  /\ issued = <<>>
  /\ last = Did("none", "posts", 0, 0, FALSE)

\* Mutant of beginEpoch: one epoch counter for all channels.
beginEpoch_Global(c) ==
  /\ epoch[c] < MaxEpoch
  /\ epoch' = [d \in Channels |-> epoch[c] + 1]
  /\ last' = Did("beginEpoch", c, 0, 0, TRUE)
  /\ UNCHANGED <<base, queue, issued>>

\* beginEpoch(channel) -> Epoch
beginEpoch(c) ==
  /\ epoch[c] < MaxEpoch
  /\ epoch' = [epoch EXCEPT ![c] = @ + 1]
  /\ last' = Did("beginEpoch", c, 0, 0, TRUE)
  /\ UNCHANGED <<base, queue, issued>>

\* Mutant of propose: the mutation is put at the front of the queue.
propose_Prepend(c, m) ==
  /\ Len(issued) < MaxProposals
  /\ LET id == Len(issued) + 1 IN
       /\ queue' = [queue EXCEPT ![c] =
                      <<[id |-> id, epoch |-> currentEpoch(c), apply |-> m]>> \o @]
       /\ issued' = Append(issued, c)
       /\ last' = Did("propose", c, id, 0, TRUE)
  /\ UNCHANGED <<epoch, base>>

\* propose(channel, apply) -> MutationHandle: the handle is the new id.
propose(c, m) ==
  /\ Len(issued) < MaxProposals
  /\ LET id == Len(issued) + 1 IN
       /\ queue' = [queue EXCEPT ![c] =
                      Append(@, [id |-> id, epoch |-> currentEpoch(c), apply |-> m])]
       /\ issued' = Append(issued, c)
       /\ last' = Did("propose", c, id, 0, TRUE)
  /\ UNCHANGED <<epoch, base>>

\* Mutant of reconcile: the base is replaced but the mutation stays queued.
reconcile_KeepsMutation(id, newBase) ==
  LET c == issued[id] IN
    /\ last' = Did("reconcile", c, id, newBase, InQueue(c, id))
    /\ IF InQueue(c, id)
         THEN /\ base' = [base EXCEPT ![c] = newBase]
              /\ UNCHANGED queue
         ELSE UNCHANGED <<base, queue>>
    /\ UNCHANGED <<epoch, issued>>

\* Mutant of reconcile: the base is replaced without looking for the handle.
reconcile_Unchecked(id, newBase) ==
  LET c == issued[id] IN
    /\ last' = Did("reconcile", c, id, newBase, InQueue(c, id))
    /\ base' = [base EXCEPT ![c] = newBase]
    /\ queue' = [queue EXCEPT ![c] = Without(@, id)]
    /\ UNCHANGED <<epoch, issued>>

\* reconcile(handle, newBase)
reconcile(id, newBase) ==
  LET c == issued[id] IN
    /\ last' = Did("reconcile", c, id, newBase, InQueue(c, id))
    /\ IF InQueue(c, id)
         THEN /\ base' = [base EXCEPT ![c] = newBase]
              /\ queue' = [queue EXCEPT ![c] = Without(@, id)]
         ELSE UNCHANGED <<base, queue>>
    /\ UNCHANGED <<epoch, issued>>

\* revert(handle)
revert(id) ==
  LET c == issued[id] IN
    /\ last' = Did("revert", c, id, 0, InQueue(c, id))
    /\ IF InQueue(c, id)
         THEN queue' = [queue EXCEPT ![c] = Without(@, id)]
         ELSE UNCHANGED queue
    /\ UNCHANGED <<epoch, base, issued>>

EngineNext ==
  \/ \E c \in Channels : beginEpoch(c) /\ UNCHANGED nonEngineVars
  \/ \E c \in OverlayChannels, m \in Mutations :
       propose(c, m) /\ UNCHANGED nonEngineVars
  \/ \E id \in DOMAIN issued, newBase \in BaseValues :
       reconcile(id, newBase) /\ UNCHANGED nonEngineVars
  \/ \E id \in DOMAIN issued : revert(id) /\ UNCHANGED nonEngineVars

InitEngine ==
  EngineInit /\ EffectOff /\ PostsOff /\ SearchOff /\ DeferredOff /\ SchedulerOff
    /\ FormOff /\ ActionOff

SpecEngine == InitEngine /\ [][EngineNext]_vars

\* The ids of a queue, in queue order.
Ids(q) == [k \in DOMAIN q |-> q[k].id]

\* C6: a reconcile that finds its handle sets the base to newBase and leaves
\* a view equal to the fold, over newBase, of the queue without the handle's
\* mutation, whatever the position of the mutation in the queue.
C6_ReconcileComplete ==
  [][(last'.op = "reconcile" /\ last'.applied) =>
       LET c == last'.channel IN
         /\ base'[c] = last'.newBase
         /\ foldLeft(base'[c], queue'[c])
              = foldLeft(last'.newBase, SelectSeq(queue[c], LAMBDA m : m.id # last'.id))
         /\ Len(queue'[c]) = Len(queue[c]) - 1]_vars

\* Scenario 2: A (+1) and B (+2) proposed on base 10; B is reconciled first
\* with newBase 12: A alone remains and the view is 13.
C6_Witness ==
  \E c \in Channels :
    /\ last = Did("reconcile", c, 2, 12, TRUE)
    /\ issued[1] = c
    /\ Len(queue[c]) = 1
    /\ queue[c][1].id = 1 /\ queue[c][1].apply = [op |-> "add", k |-> 1]
    /\ view(c) = 13

\* C7: a revert that finds its handle leaves the base alone and leaves the
\* queue, and so the view, that the other proposals alone produce.
C7_RevertNoOp ==
  [][(last'.op = "revert" /\ last'.applied) =>
       LET c == last'.channel
           others == SelectSeq(queue[c], LAMBDA m : m.id # last'.id)
       IN /\ base' = base
          /\ queue'[c] = others
          /\ foldLeft(base'[c], queue'[c]) = foldLeft(base[c], others)]_vars

\* The second of three mutations of a channel has been reverted; the first
\* and the third remain.
C7_Witness ==
  \E c \in Channels :
    /\ last = Did("revert", c, 2, 0, TRUE)
    /\ Ids(queue[c]) = <<1, 3>>
    /\ queue[c][2].apply.op = "mul"

\* C8: reconcile or revert on a handle whose mutation is no longer queued
\* changes neither the base nor the queue (nor the epochs), so the view is
\* unchanged.
C8_DoubleResolution ==
  [][(last'.op \in {"reconcile", "revert"} /\ ~last'.applied) =>
       /\ UNCHANGED <<base, queue, epoch, issued>>
       /\ \A c \in Channels :
            foldLeft(base'[c], queue'[c]) = foldLeft(base[c], queue[c])]_vars

\* A reconcile with a new base value arrived for a handle already removed.
C8_Witness ==
  /\ last.op = "reconcile" /\ ~last.applied
  /\ last.newBase # base[last.channel]

\* C9: every queue holds its mutations in the order they were proposed.
C9_ProposalOrder ==
  \A c \in Channels : \A i, j \in DOMAIN queue[c] :
    i < j => queue[c][i].id < queue[c][j].id

\* Three mutations were proposed on a channel and the second one was
\* confirmed first.
C9_Witness ==
  \E c \in Channels :
    /\ last = Did("reconcile", c, 2, 12, TRUE)
    /\ Ids(queue[c]) = <<1, 3>>

\* ------------------------------------------------------------------------
\* pokamoka: Application with useTransition
\* Strings are sequences of characters.
\* ------------------------------------------------------------------------

\* What the user may leave in the input.
Queries == {<<>>, <<"p">>, <<"p", "i">>, <<"P", "i", "k">>}

\* One character of String.prototype.toLowerCase().
Lower(ch) == IF ch = "P" THEN "p" ELSE ch

\* s.toLowerCase()
toLowerCase(s) == [k \in DOMAIN s |-> Lower(s[k])]

\* s.includes(q)
includes(s, q) ==
  \E i \in 0..(Len(s) - Len(q)) : SubSeq(s, i + 1, i + Len(q)) = q

\* pokedex.json: the fields filterPokemon reads.
pokedex ==
  << [id |-> 25,
      name |-> [english |-> <<"P", "i", "k">>, japanese |-> <<"k", "a">>,
                chinese |-> <<"k", "i">>, french |-> <<"P", "i", "k">>],
      description |-> <<"a", "p">>, species |-> <<"k">>,
      type |-> << <<"a">> >>, ability |-> << <<"k", "a">> >>],
     [id |-> 16,
      name |-> [english |-> <<"P", "i">>, japanese |-> <<"a">>,
                chinese |-> <<"a">>, french |-> <<"a">>],
      description |-> <<"a">>, species |-> <<"a">>,
      type |-> << <<"a">>, <<"k">> >>, ability |-> << <<"a">> >>],
     [id |-> 4,
      name |-> [english |-> <<"a">>, japanese |-> <<"a">>,
                chinese |-> <<"a">>, french |-> <<"a">>],
      description |-> <<"a">>, species |-> <<"a">>,
      type |-> << <<"a">> >>, ability |-> << <<"a", "P">> >>] >>

\* filterPokemon(searchQuery)
filterPokemon(q) ==
  IF q = <<>> THEN pokedex
  ELSE LET query == toLowerCase(q) IN
    SelectSeq(pokedex, LAMBDA pokemon :
      \/ includes(toLowerCase(pokemon.name.english), query)
      \/ includes(toLowerCase(pokemon.name.japanese), query)
      \/ includes(toLowerCase(pokemon.name.chinese), query)
      \/ includes(toLowerCase(pokemon.name.french), query)
      \/ includes(toLowerCase(pokemon.description), query)
      \/ includes(toLowerCase(pokemon.species), query)
      \/ \E t \in DOMAIN pokemon.type :
           includes(toLowerCase(pokemon.type[t]), query)
      \/ \E a \in DOMAIN pokemon.ability :
           includes(toLowerCase(pokemon.ability[a]), query))

\* useMemo(() => filterPokemon(searchQuery), [searchQuery])
filteredPokemon == filterPokemon(searchQuery)

\* The state after mount; the first render has run filterPokemon('').
SearchInit ==
  /\ inputQuery = <<>>
  /\ searchQuery = <<>>
  /\ isPending = FALSE
  /\ transitionQueue = <<>>
  /\ timeouts = <<>>
  /\ debounceRef = 0
  /\ wip = <<>>
  /\ changes = 0
  /\ filterRuns = 1

\* Mutant of HandleSearchChange: setSearchQuery(value) is called outside
\* startTransition, so both states change in the same urgent render.
HandleSearchChange_NoTransition(value) ==
  /\ value # inputQuery
  /\ changes < MaxChanges
  /\ inputQuery' = value
  /\ searchQuery' = value
  /\ filterRuns' = IF value # searchQuery THEN filterRuns + 1 ELSE filterRuns
  /\ wip' = <<>>
  /\ changes' = changes + 1
  /\ UNCHANGED <<isPending, transitionQueue, timeouts, debounceRef>>

\* handleSearchChange(e) with e.target.value = value, and the urgent render
\* that follows: inputQuery and isPending change, searchQuery does not; a
\* transition render in progress is discarded.
HandleSearchChange(value) ==
  /\ value # inputQuery
  /\ changes < MaxChanges
  /\ inputQuery' = value
  /\ isPending' = TRUE
  /\ transitionQueue' = Append(transitionQueue, value)
  /\ wip' = <<>>
  /\ changes' = changes + 1
  /\ UNCHANGED <<searchQuery, timeouts, debounceRef, filterRuns>>

\* React starts rendering the transition lane: Application renders with the
\* last queued searchQuery and useMemo runs filterPokemon if it changed.
TransitionRender ==
  /\ transitionQueue # <<>>
  /\ wip = <<>>
  /\ wip' = <<transitionQueue[Len(transitionQueue)]>>
  /\ filterRuns' = IF transitionQueue[Len(transitionQueue)] # searchQuery
                     THEN filterRuns + 1 ELSE filterRuns
  /\ UNCHANGED <<inputQuery, searchQuery, isPending, transitionQueue, timeouts,
                 debounceRef, changes>>

\* The transition render completes and commits.
TransitionCommit ==
  /\ wip # <<>>
  /\ searchQuery' = wip[1]
  /\ isPending' = FALSE
  /\ transitionQueue' = <<>>
  /\ wip' = <<>>
  /\ UNCHANGED <<inputQuery, timeouts, debounceRef, changes, filterRuns>>

SearchNext ==
  \/ \E value \in Queries : HandleSearchChange(value) /\ UNCHANGED nonSearchVars
  \/ TransitionRender /\ UNCHANGED nonSearchVars
  \/ TransitionCommit /\ UNCHANGED nonSearchVars

InitSearch ==
  SearchInit /\ EffectOff /\ PostsOff /\ EngineOff /\ DeferredOff /\ SchedulerOff
    /\ FormOff /\ ActionOff

SpecSearch == InitSearch /\ [][SearchNext]_vars

\* C14: when handleSearchChange returns (a setLive: the count of changes is
\* the epoch and grows by one), inputQuery is the value typed, no computation
\* has run (searchQuery and the runs of filterPokemon are unchanged) and the
\* same value waits for searchQuery in a pending transition.
C14_SetLiveImmediate ==
  [][changes' # changes =>
       /\ changes' = changes + 1
       /\ inputQuery' \in Queries
       /\ searchQuery' = searchQuery
       /\ filterRuns' = filterRuns
       /\ isPending'
       /\ transitionQueue' = Append(transitionQueue, inputQuery')]_vars

\* Two changes were made and no transition has rendered: the input shows the
\* second value, searchQuery is still the initial one.
C14_Witness ==
  /\ changes = 2
  /\ filterRuns = 1
  /\ isPending
  /\ inputQuery # searchQuery
  /\ Len(transitionQueue) = 2
  /\ transitionQueue[2] = inputQuery
  /\ timeouts = <<>>

\* ------------------------------------------------------------------------
\* pokamoka: the debounced variant of handleSearchChange (README, "Combining
\* with Debouncing"); inputValue there is inputQuery here.
\* ------------------------------------------------------------------------

\* The number of timeout callbacks that have run.
TimeoutsRun == Cardinality({k \in DOMAIN timeouts : timeouts[k].state = "fired"})

\* Mutant of clearTimeout: the previous timeout is left pending.
clearTimeout_Missing(ts, k) == ts

\* if (debounceRef.current) clearTimeout(debounceRef.current): a timeout that
\* has already fired is left as it is.
clearTimeout(ts, k) ==
  IF k # 0 /\ ts[k].state = "pending"
    THEN [ts EXCEPT ![k].state = "cleared"]
    ELSE ts

\* handleSearchChange(e) with e.target.value = value: setInputValue(value),
\* clear the previous timeout, set a new one for 300 ms.
HandleSearchChangeDebounced(value) ==
  /\ value # inputQuery
  /\ changes < MaxChanges
  /\ inputQuery' = value
  /\ timeouts' = Append(clearTimeout(timeouts, debounceRef),
                        [value |-> value, state |-> "pending", burst |-> TimeoutsRun])
  /\ debounceRef' = Len(timeouts) + 1
  /\ wip' = <<>>
  /\ changes' = changes + 1
  /\ UNCHANGED <<searchQuery, isPending, transitionQueue, filterRuns>>

\* The callback of timeout k runs, 300 ms after it was set:
\* startTransition(() => setSearchQuery(value)).
TimeoutFires(k) ==
  /\ timeouts[k].state = "pending"
  /\ timeouts' = [timeouts EXCEPT ![k].state = "fired"]
  /\ isPending' = TRUE
  /\ transitionQueue' = Append(transitionQueue, timeouts[k].value)
  /\ wip' = <<>>
  /\ UNCHANGED <<inputQuery, searchQuery, debounceRef, changes, filterRuns>>

DebounceNext ==
  \/ \E value \in Queries :
       HandleSearchChangeDebounced(value) /\ UNCHANGED nonSearchVars
  \/ \E k \in DOMAIN timeouts : TimeoutFires(k) /\ UNCHANGED nonSearchVars
  \/ TransitionRender /\ UNCHANGED nonSearchVars
  \/ TransitionCommit /\ UNCHANGED nonSearchVars

SpecDebounce == InitSearch /\ [][DebounceNext]_vars

\* The timeouts set in the same coalescing window as timeout k: those set
\* while the same number of callbacks had run.
SameWindow(j, k) == timeouts[j].burst = timeouts[k].burst

\* C11: of the timeouts set within one coalescing window only the last one
\* ever runs (one settle execution per burst, on the last live value);
\* searchQuery only ever takes the value of a timeout that ran; and after
\* three changes within one window, one callback at most has run, filterPokemon
\* has run at most once since mount, and searchQuery is the initial query or
\* the third value.
C11_Coalescing ==
  /\ \A j, k \in DOMAIN timeouts :
       (j < k /\ SameWindow(j, k)) => timeouts[j].state = "cleared"
  /\ \/ searchQuery = <<>>
     \/ \E k \in DOMAIN timeouts :
          timeouts[k].state = "fired" /\ timeouts[k].value = searchQuery
  /\ (Len(timeouts) = 3 /\ SameWindow(1, 3))
       => /\ TimeoutsRun <= 1
          /\ filterRuns <= 2
          /\ searchQuery \in {<<>>, timeouts[3].value}
          /\ wip \in {<<>>, <<timeouts[3].value>>}

\* Three different values were typed within one window; one callback ran and
\* the third value, alone, reached searchQuery and filterPokemon.
C11_Witness ==
  /\ Len(timeouts) = 3 /\ SameWindow(1, 3)
  /\ timeouts[1].value # timeouts[3].value
  /\ timeouts[2].value # timeouts[3].value
  /\ timeouts[1].value # <<>> /\ timeouts[2].value # <<>>
  /\ TimeoutsRun = 1
  /\ searchQuery = timeouts[3].value
  /\ filterRuns = 2

\* ------------------------------------------------------------------------
\* throwing-shapes and prime-time: Application with useDeferredValue
\* ------------------------------------------------------------------------

\* The positions of the Range slider (min 1000, step 1000).
ShapeCounts == {1000, 2000, 3000}

\* Values of Number(e.target.value) for the limit input.
Limits == {0, 10, 10000}

\* Mutant of useDeferredValue: the deferred value never catches up.
useDeferredValue_Never(value, prevValue, deferredLane) == prevValue

\* useDeferredValue(value): a render on the deferred lane returns value, an
\* urgent render returns the previously committed deferred value.
useDeferredValue(value, prevValue, deferredLane) ==
  IF deferredLane \/ value = prevValue THEN value ELSE prevValue

\* Mutant of isRendering: only a growing count is detected.
isRendering_Greater(count, deferredCount) == count > deferredCount

\* const isRendering = shapeCount !== deferredShapeCount
isRendering(count, deferredCount) == count # deferredCount

\* const isCalculating = limit !== deferredLimit
isCalculating(lim, deferredLim) == lim # deferredLim

\* The state after mount: useDeferredValue returns the value itself.
DeferredInit ==
  /\ shapeCount = 1000
  /\ deferredShapeCount = 1000
  /\ shapesLanePending = FALSE
  /\ catchingUpShown = isRendering(1000, 1000)
  /\ liveEpoch = 0
  /\ settledEpoch = 0
  /\ limit = 10000
  /\ deferredLimit = 10000
  /\ limitLanePending = FALSE
  /\ calculatingShown = isCalculating(10000, 10000)

\* Mutant of SetShapeCount: the indicator is a stored flag, set when the
\* slider moves and cleared when the deferred render commits.
SetShapeCount_StoredFlag(count) ==
  /\ count # shapeCount
  /\ liveEpoch < MaxChanges
  /\ shapeCount' = count
  /\ deferredShapeCount' = useDeferredValue(count, deferredShapeCount, FALSE)
  /\ shapesLanePending' = TRUE
  /\ catchingUpShown' = TRUE
  /\ liveEpoch' = liveEpoch + 1
  /\ UNCHANGED <<settledEpoch, limit, deferredLimit, limitLanePending,
                 calculatingShown>>

\* onChange={setShapeCount} and the urgent render that follows; a deferred
\* render in progress is discarded and stays scheduled.
SetShapeCount(count) ==
  /\ count # shapeCount
  /\ liveEpoch < MaxChanges
  /\ shapeCount' = count
  /\ deferredShapeCount' = useDeferredValue(count, deferredShapeCount, FALSE)
  /\ shapesLanePending' = (shapesLanePending \/ count # deferredShapeCount)
  /\ catchingUpShown' = isRendering(shapeCount', deferredShapeCount')
  /\ liveEpoch' = liveEpoch + 1
  /\ UNCHANGED <<settledEpoch, limit, deferredLimit, limitLanePending,
                 calculatingShown>>

\* The deferred render of throwing-shapes completes and commits.
DeferredShapesRender ==
  /\ shapesLanePending
  /\ deferredShapeCount' = useDeferredValue(shapeCount, deferredShapeCount, TRUE)
  /\ shapesLanePending' = FALSE
  /\ catchingUpShown' = isRendering(shapeCount, deferredShapeCount')
  /\ settledEpoch' = liveEpoch
  /\ UNCHANGED <<shapeCount, liveEpoch, limit, deferredLimit, limitLanePending,
                 calculatingShown>>

\* onChange={(e) => setLimit(Number(e.target.value))} and the urgent render.
SetLimit(lim) ==
  /\ lim # limit
  /\ limit' = lim
  /\ deferredLimit' = useDeferredValue(lim, deferredLimit, FALSE)
  /\ limitLanePending' = (limitLanePending \/ lim # deferredLimit)
  /\ calculatingShown' = isCalculating(limit', deferredLimit')
  /\ UNCHANGED <<shapeCount, deferredShapeCount, shapesLanePending,
                 catchingUpShown, liveEpoch, settledEpoch>>

\* The deferred render of prime-time completes and commits.
DeferredLimitRender ==
  /\ limitLanePending
  /\ deferredLimit' = useDeferredValue(limit, deferredLimit, TRUE)
  /\ limitLanePending' = FALSE
  /\ calculatingShown' = isCalculating(limit, deferredLimit')
  /\ UNCHANGED <<shapeCount, deferredShapeCount, shapesLanePending,
                 catchingUpShown, liveEpoch, settledEpoch, limit>>

DeferredNext ==
  \/ \E count \in ShapeCounts : SetShapeCount(count) /\ UNCHANGED nonDeferredVars
  \/ DeferredShapesRender /\ UNCHANGED nonDeferredVars
  \/ \E lim \in Limits : SetLimit(lim) /\ UNCHANGED nonDeferredVars
  \/ DeferredLimitRender /\ UNCHANGED nonDeferredVars

InitDeferred ==
  DeferredInit /\ EffectOff /\ PostsOff /\ EngineOff /\ SearchOff /\ SchedulerOff
    /\ FormOff /\ ActionOff

SpecDeferred == InitDeferred /\ [][DeferredNext]_vars

\* Claims on the deferred-value applications. A change of shapeCount is a
\* setLive and allocates the epoch liveEpoch; the commit of a deferred render
\* is the publish of the settle scheduled for the epoch it rendered.

\* C12, as stated: the indicator is shown exactly between a setLive and the
\* publish for that or a newer epoch.
C12_ExactInterval ==
  catchingUpShown <=> (settledEpoch < liveEpoch)

\* C12, amended: the indicator is shown exactly while, between a setLive and
\* the publish for that or a newer epoch, live differs from the deferred
\* value; inside that interval it is off once a later setLive has brought live
\* back to the deferred value.
C12_IntervalWhileDifferent ==
  catchingUpShown <=>
    (settledEpoch < liveEpoch /\ shapeCount # deferredShapeCount)

\* The slider went 1000 -> 2000 -> 1000 before any deferred render committed:
\* no publish has happened for epoch 1 or 2 and the indicator is off.
C12_Witness ==
  /\ liveEpoch = 2
  /\ settledEpoch = 0
  /\ shapeCount = 1000
  /\ shapesLanePending
  /\ ~catchingUpShown

\* C13: in both applications the committed indicator equals
\* (live # deferred) in every state.
C13_DerivedFlag ==
  /\ catchingUpShown = (shapeCount # deferredShapeCount)
  /\ calculatingShown = (limit # deferredLimit)

\* Both indicators are on; and the shapes indicator is off, between two
\* deferred commits, because the slider came back to the deferred value.
C13_Witness ==
  /\ calculatingShown
  /\ limit # deferredLimit
  /\ ~catchingUpShown
  /\ shapesLanePending
  /\ liveEpoch > settledEpoch
  /\ settledEpoch > 0

\* React renders every lane it has scheduled, so a deferred render that is
\* pending does happen.
SpecDeferredFair ==
  /\ SpecDeferred
  /\ WF_vars(DeferredShapesRender /\ UNCHANGED nonDeferredVars)
  /\ WF_vars(DeferredLimitRender /\ UNCHANGED nonDeferredVars)

\* The greatest i with i <= Math.sqrt(n).
SqrtFloor(n) == CHOOSE r \in 0..n : r * r <= n /\ (r + 1) * (r + 1) > n

\* calculatePrimes(limit): the sieve leaves numbers[j] true for the j >= 2
\* that no i with 2 <= i <= Math.sqrt(limit) and i * i <= j divides; the
\* result is those j in ascending order.
calculatePrimes(lim) ==
  IF lim < 2 THEN <<>>
  ELSE LET root == SqrtFloor(lim)
           numbers == [j \in 1..lim |->
                         /\ j >= 2
                         /\ ~\E i \in 2..root : i * i <= j /\ j % i = 0]
       IN SelectSeq([j \in 1..lim |-> j], LAMBDA j : numbers[j])

\* useMemo(() => calculatePrimes(deferredLimit), [deferredLimit]): the value
\* for each deferredLimit, computed once.
primesMemo == [lim \in Limits |-> calculatePrimes(lim)]

\* const primes = useMemo(...)
primes == primesMemo[deferredLimit]

\* const largestPrime = primes.length > 0 ? primes[primes.length - 1] : 0
largestPrime == IF Len(primes) > 0 THEN primes[Len(primes)] ELSE 0

\* <Stats count={primes.length} largestPrime={largestPrime} limit={limit} />
Stats == [count |-> Len(primes), largestPrime |-> largestPrime, limit |-> limit]

\* C26: if the changes of the live value stop, then from some point on the
\* deferred value equals the last live value, what is derived from it is
\* computed from the last live value, and the indicator is off: for the
\* shapes slider and for the primes limit.
C26_EventuallySettled ==
  /\ (<>[][FALSE]_shapeCount)
       => <>[](deferredShapeCount = shapeCount /\ ~catchingUpShown)
  /\ (<>[][FALSE]_limit)
       => <>[](/\ deferredLimit = limit
               /\ primes = primesMemo[limit]
               /\ ~calculatingShown)

\* After several changes of the slider and a change of the limit, both
\* deferred values have caught up with values other than the initial ones
\* and both indicators are off.
C26_Witness ==
  /\ liveEpoch >= 2
  /\ settledEpoch = liveEpoch
  /\ shapeCount # 1000 /\ deferredShapeCount = shapeCount
  /\ ~shapesLanePending /\ ~catchingUpShown
  /\ limit = 10 /\ deferredLimit = limit
  /\ Len(primes) = 4 /\ largestPrime = 7
  /\ ~limitLanePending /\ ~calculatingShown

\* C30, as stated: the count and the largest prime that Stats is given are
\* those of calculatePrimes applied to the limit it is given.
C30_StatsConsistent ==
  /\ Stats.count = Len(primesMemo[Stats.limit])
  /\ Stats.largestPrime =
       (IF Len(primesMemo[Stats.limit]) > 0
          THEN primesMemo[Stats.limit][Len(primesMemo[Stats.limit])] ELSE 0)

\* The limit was changed from 10000 to 10 and the deferred render has not
\* committed: Stats shows the limit 10 with the 1229 primes up to 10000.
C30_Inconsistent ==
  /\ Stats = [count |-> 1229, largestPrime |-> 9973, limit |-> 10]
  /\ calculatingShown

\* ------------------------------------------------------------------------
\* Speculative View Engine: Deferred Computation Scheduler (4.3), on the
\* same channels and Epoch Tracker as the Mutation Overlay. Like the overlay,
\* it follows the specification's contract.
\* ------------------------------------------------------------------------

\* The live and settled value of a channel nothing has been set on.
NoValue == 0

\* The values callers set live to.
LiveValues == {3}

\* The derivation callers supply: compute = double.
compute(x) == x + x

\* The one apply function and the one authoritative value callers use when
\* both channels are exercised together.
ChannelMutations == {[op |-> "add", k |-> 1]}
ChannelBaseValues == {12}

SchedulerInit ==
  /\ live = [c \in Channels |-> NoValue]
  /\ settled = [c \in Channels |-> NoValue]
  /\ pending = [c \in Channels |-> <<>>]
  /\ touched = {}
  /\ calls = 0

\* setLive(channel, value): updates live and allocates a fresh epoch.
setLive(c, value) ==
  /\ epoch[c] < MaxEpoch
  /\ live' = [live EXCEPT ![c] = value]
  /\ epoch' = [epoch EXCEPT ![c] = @ + 1]
  /\ last' = Did("setLive", c, 0, 0, TRUE)
  /\ UNCHANGED <<base, queue, issued, settled, pending>>

\* settle(channel, compute, coalesceWindow): schedules compute(live) under
\* the current epoch; one computation per epoch.
settle(c) ==
  /\ \A k \in DOMAIN pending[c] : pending[c][k].epoch # currentEpoch(c)
  /\ pending' = [pending EXCEPT ![c] =
                   Append(@, [epoch |-> currentEpoch(c), input |-> live[c],
                              state |-> "scheduled"])]
  /\ last' = Did("settle", c, 0, 0, TRUE)
  /\ UNCHANGED <<epoch, base, queue, issued, live, settled>>

\* Mutant of completeSettle: the result is published without the epoch check.
completeSettle_Unfenced(c, k) ==
  /\ pending[c][k].state = "scheduled"
  /\ pending' = [pending EXCEPT ![c][k].state = "done"]
  /\ settled' = [settled EXCEPT ![c] = compute(pending[c][k].input)]
  /\ last' = Did("completeSettle", c, k, 0, isCurrent(c, pending[c][k].epoch))
  /\ UNCHANGED <<epoch, base, queue, issued, live>>

\* The computation k of a channel completes: its result is published if its
\* epoch is current and discarded otherwise.
completeSettle(c, k) ==
  /\ pending[c][k].state = "scheduled"
  /\ pending' = [pending EXCEPT ![c][k].state = "done"]
  /\ settled' = IF isCurrent(c, pending[c][k].epoch)
                  THEN [settled EXCEPT ![c] = compute(pending[c][k].input)]
                  ELSE settled
  /\ last' = Did("completeSettle", c, k, 0, isCurrent(c, pending[c][k].epoch))
  /\ UNCHANGED <<epoch, base, queue, issued, live>>

\* One more operation is performed, naming channel c.
Call(c) ==
  /\ calls < MaxCalls
  /\ calls' = calls + 1
  /\ touched' = touched \cup {c}

\* Every operation of the engine, on either channel.
ChannelsNext ==
  \/ \E c \in Channels :
       /\ beginEpoch(c) /\ Call(c)
       /\ UNCHANGED <<live, settled, pending>> /\ UNCHANGED nonChannelVars
  \/ \E c \in Channels, m \in ChannelMutations :
       /\ propose(c, m) /\ Call(c)
       /\ UNCHANGED <<live, settled, pending>> /\ UNCHANGED nonChannelVars
  \/ \E id \in DOMAIN issued, newBase \in ChannelBaseValues :
       /\ reconcile(id, newBase) /\ Call(issued[id])
       /\ UNCHANGED <<live, settled, pending>> /\ UNCHANGED nonChannelVars
  \/ \E id \in DOMAIN issued :
       /\ revert(id) /\ Call(issued[id])
       /\ UNCHANGED <<live, settled, pending>> /\ UNCHANGED nonChannelVars
  \/ \E c \in Channels, value \in LiveValues :
       setLive(c, value) /\ Call(c) /\ UNCHANGED nonChannelVars
  \/ \E c \in Channels :
       settle(c) /\ Call(c) /\ UNCHANGED nonChannelVars
  \/ \E c \in Channels : \E k \in DOMAIN pending[c] :
       completeSettle(c, k) /\ Call(c) /\ UNCHANGED nonChannelVars

InitChannels ==
  EngineInit /\ SchedulerInit /\ EffectOff /\ PostsOff /\ SearchOff /\ DeferredOff
    /\ FormOff /\ ActionOff

SpecChannels == InitChannels /\ [][ChannelsNext]_vars

\* C17: an operation changes the epoch counter, the mutation queue, the base
\* and the live/settled pair (with its scheduled computations) of the channel
\* it names only.
C17_ChannelIsolation ==
  [][\A c \in Channels :
       c # last'.channel =>
         /\ epoch'[c] = epoch[c]
         /\ queue'[c] = queue[c]
         /\ base'[c] = base[c]
         /\ live'[c] = live[c]
         /\ settled'[c] = settled[c]
         /\ pending'[c] = pending[c]]_vars

\* Both channels have been used and have gone different ways: one has an
\* epoch allocated, a live value and a published result, the other a queued
\* mutation at epoch 0.
C17_Witness ==
  \E c, d \in Channels :
    /\ c # d
    /\ epoch[c] = 1 /\ live[c] = 3 /\ settled[c] = compute(3)
    /\ epoch[d] = 0 /\ queue[d] # <<>> /\ live[d] = NoValue
    /\ queue[c] = <<>>

Stamp(c, id) ==
  queue[c][CHOOSE k \in DOMAIN queue[c] : queue[c][k].id = id].epoch

\* The operation of this step is a reconcile or a revert of a handle of
\* channel c whose mutation is queued and stamped with an older epoch.
StaleResolution(c) ==
  /\ last'.op \in {"reconcile", "revert"}
  /\ last'.channel = c
  /\ InQueue(c, last'.id)
  /\ Stamp(c, last'.id) < currentEpoch(c)

\* The operation of this step is the completion of a computation of channel c
\* scheduled under an older epoch.
StalePublish(c) ==
  /\ last'.op = "completeSettle"
  /\ last'.channel = c
  /\ pending[c][last'.id].state = "scheduled"
  /\ pending[c][last'.id].epoch < currentEpoch(c)

\* The base, the queue, the view and the settled value of c are unchanged.
Inert(c) ==
  /\ base'[c] = base[c]
  /\ queue'[c] = queue[c]
  /\ foldLeft(base'[c], queue'[c]) = view(c)
  /\ settled'[c] = settled[c]

====
